---------------------------- MODULE Spec2Model ----------------------------
(***************************************************************************)
(* Model of python-service/embedding_service.py: a FastAPI facade over a   *)
(* single process-wide embedding backend (the global embeddings_model),    *)
(* its lifespan hook (startup construction + probe, shutdown) and its four *)
(* route handlers (health_check, embed_text, embed_batch, model_info).     *)
(*                                                                         *)
(* Abstractions.  A text is represented by its length and a batch by the   *)
(* number of its texts: the handlers only take len() of them and pass them *)
(* on.  An embedding is a sequence of zeros whose length is the backend's  *)
(* output dimension; the float values are never inspected by the service.  *)
(* A backend call either raises or returns; which one is an input.         *)
(***************************************************************************)
EXTENDS Integers, Sequences, FiniteSets, TLC

VARIABLES
    embeddings_model, \* the module global of line 20
    lifespan_pc,      \* position of the most recently entered lifespan scope
    probe_result,     \* outcome of the most recent probe of line 39
    last,             \* the most recently handled request and its outcome
    reqs              \* number of requests handled so far

vars == <<embeddings_model, lifespan_pc, probe_result, last, reqs>>

---------------------------------------------------------------------------
(* Bounds of the model *)

MaxTexts == 102       \* longest batch tried (covers 100, 101 and beyond)

MaxTextLen == 1       \* longest single text tried

MaxDim == 2           \* largest backend output dimension tried

MaxReqs == 2          \* requests handled in one behaviour

(* Program constants *)

MaxBatch == 100       \* line 116: len(request.texts) > 100

---------------------------------------------------------------------------
(* The backend handle *)

None == [set |-> FALSE, dim |-> 0]

HuggingFaceEmbeddings(d) == [set |-> TRUE, dim |-> d]

is_not_None(model) == model.set

Vector(d) == [i \in 1..d |-> 0]

\* embeddings_model.embed_query(text): one vector of the backend's dimension
embed_query(model, text) == Vector(model.dim)

\* embeddings_model.embed_documents(texts): one vector per text, in order
embed_documents(model, n) == [i \in 1..n |-> Vector(model.dim)]

---------------------------------------------------------------------------
(* Handler outcomes.  raised is "none" for a normal return, "HTTPException" *)
(* for a raise HTTPException(...), and "Exception" for any other exception  *)
(* that leaves the handler.  calls counts the backend calls made.           *)
(* model_after is the value of the global when the handler ends.            *)

NoBody == [model_loaded |-> FALSE, embedding |-> <<>>, embeddings |-> <<>>,
           dimension |-> 0, count |-> 0]

Outcome(status, raised, detail, body, calls, model) ==
    [status |-> status, raised |-> raised, detail |-> detail, body |-> body,
     calls |-> calls, model_after |-> model]

HTTPException(status, detail, calls, model) ==
    Outcome(status, "HTTPException", detail, NoBody, calls, model)

Unhandled(calls, model) ==
    Outcome(0, "Exception", "backend error", NoBody, calls, model)

EmbedResponse(embedding, dimension) ==
    [NoBody EXCEPT !.embedding = embedding, !.dimension = dimension]

EmbedBatchResponse(embeddings, dimension, count) ==
    [NoBody EXCEPT !.embeddings = embeddings, !.dimension = dimension,
                   !.count = count]

---------------------------------------------------------------------------
(* Route handlers, lines 82-147 *)

\* variant: health refuses while the model is not loaded
health_check_guarded(model) ==
    IF is_not_None(model)
    THEN Outcome(200, "none", "healthy",
                 [NoBody EXCEPT !.model_loaded = TRUE], 0, model)
    ELSE HTTPException(503, "Embedding model not loaded", 0, model)

\* GET /health
health_check(model) ==
    Outcome(200, "none", "healthy",
            [NoBody EXCEPT !.model_loaded = is_not_None(model)], 0, model)

\* variant: a failed backend call drops the global handle
embed_text_reset(model, text, ok) ==
    IF ~is_not_None(model)
    THEN HTTPException(503, "Embedding model not loaded", 0, model)
    ELSE IF ok
         THEN LET embedding == embed_query(model, text)
              IN  Outcome(200, "none", "",
                          EmbedResponse(embedding, Len(embedding)), 1, model)
         ELSE HTTPException(500, "Embedding generation failed: backend error", 1, None)

\* variant: a failed backend call is tried a second time
embed_text_retry(model, text, ok) ==
    IF ~is_not_None(model)
    THEN HTTPException(503, "Embedding model not loaded", 0, model)
    ELSE IF ok
         THEN LET embedding == embed_query(model, text)
              IN  Outcome(200, "none", "",
                          EmbedResponse(embedding, Len(embedding)), 1, model)
         ELSE HTTPException(500, "Embedding generation failed: backend error", 2, model)

\* POST /embed
embed_text(model, text, ok) ==
    IF ~is_not_None(model)
    THEN HTTPException(503, "Embedding model not loaded", 0, model)
    ELSE IF ok
         THEN LET embedding == embed_query(model, text)
              IN  Outcome(200, "none", "",
                          EmbedResponse(embedding, Len(embedding)), 1, model)
         ELSE HTTPException(500, "Embedding generation failed: backend error", 1, model)

\* variant: the ceiling test is off by one
BatchTooLarge_off_by_one(n) == n > MaxBatch + 1

\* line 116: the batch-size ceiling
BatchTooLarge(n) == n > MaxBatch

\* variant: the dimension is taken from the outer list
BatchDimension_outer(embeddings) == Len(embeddings)

\* line 125: len(embeddings[0]) if embeddings else 0
BatchDimension(embeddings) ==
    IF embeddings # <<>> THEN Len(embeddings[1]) ELSE 0

\* POST /embed/batch
embed_batch(model, n, ok) ==
    IF ~is_not_None(model)
    THEN HTTPException(503, "Embedding model not loaded", 0, model)
    ELSE IF BatchTooLarge(n)
         THEN HTTPException(400, "Batch size too large (max 100)", 0, model)
         ELSE IF ok
              THEN LET embeddings == embed_documents(model, n)
                   IN  Outcome(200, "none", "",
                               EmbedBatchResponse(embeddings,
                                                  BatchDimension(embeddings),
                                                  Len(embeddings)),
                               1, model)
              ELSE HTTPException(500, "Batch embedding generation failed: backend error",
                                 1, model)

\* GET /models/info: the probe of line 139 is outside any try block
model_info(model, ok) ==
    IF ~is_not_None(model)
    THEN HTTPException(503, "Embedding model not loaded", 0, model)
    ELSE IF ok
         THEN LET test_embedding == embed_query(model, 1)
              IN  Outcome(200, "none", "",
                          [NoBody EXCEPT !.dimension = Len(test_embedding)],
                          1, model)
         ELSE Unhandled(1, model)

---------------------------------------------------------------------------
(* The lifespan context manager, lines 22-49 *)

\* lines 29-36: the global is bound only if the constructor returns
lifespan_construct(model, ok, d) ==
    IF ok THEN HuggingFaceEmbeddings(d) ELSE model

\* lines 28-36, 42-44: a constructor failure is re-raised
lifespan_after_construct(ok) == IF ok THEN "Loading" ELSE "Failed"

\* variant: the except clause swallows the probe failure
lifespan_after_probe_swallow(ok) == "Ready"

\* lines 39-46: a probe failure is re-raised, success reaches the yield
lifespan_after_probe(ok) == IF ok THEN "Ready" ELSE "Failed"

\* lines 42-44: the except clause re-raises and leaves the global as it is
lifespan_except(model) == model

\* lines 48-49: shutdown only logs
lifespan_shutdown(model) == model

---------------------------------------------------------------------------
(* State machine *)

NoRequest ==
    [endpoint |-> "none", n |-> 0, backend_ok |-> TRUE,
     pc_at |-> "Uninitialized", model_before |-> None,
     out |-> Outcome(0, "none", "", NoBody, 0, None)]

Init ==
    /\ embeddings_model = None
    /\ lifespan_pc = "Uninitialized"
    /\ probe_result = "pending"
    /\ last = NoRequest
    /\ reqs = 0

\* startup, first half: import and construct the backend (lines 28-36).
\* lifespan(app) has no guard of its own: a driver may open a lifespan scope
\* on the app again after a shutdown, after a failed startup, or while an
\* earlier scope is still at its yield, and line 32 then rebinds the global.
\* Only the startup block itself, which has no await, cannot be re-entered.
StartupConstruct ==
    /\ lifespan_pc # "Loading"
    /\ \E ok \in BOOLEAN, d \in 1..MaxDim :
          /\ embeddings_model' = lifespan_construct(embeddings_model, ok, d)
          /\ lifespan_pc' = lifespan_after_construct(ok)
    /\ UNCHANGED <<probe_result, last, reqs>>

\* startup, second half: the probe embedding (lines 39-46)
StartupProbe ==
    /\ lifespan_pc = "Loading"
    /\ \E ok \in BOOLEAN :
          /\ probe_result' = IF ok THEN "ok" ELSE "failed"
          /\ embeddings_model' =
                IF ok THEN embeddings_model
                      ELSE lifespan_except(embeddings_model)
          /\ lifespan_pc' = lifespan_after_probe(ok)
    /\ UNCHANGED <<last, reqs>>

\* shutdown: the code after the yield (lines 48-49)
Shutdown ==
    /\ lifespan_pc = "Ready"
    /\ lifespan_pc' = "Stopped"
    /\ embeddings_model' = lifespan_shutdown(embeddings_model)
    /\ UNCHANGED <<probe_result, last, reqs>>

Lifespan == StartupConstruct \/ StartupProbe \/ Shutdown

Handled(endpoint, n, ok, o) ==
    /\ reqs < MaxReqs
    /\ last' = [endpoint |-> endpoint, n |-> n, backend_ok |-> ok,
                pc_at |-> lifespan_pc, model_before |-> embeddings_model,
                out |-> o]
    /\ embeddings_model' = o.model_after
    /\ reqs' = reqs + 1
    /\ UNCHANGED <<lifespan_pc, probe_result>>

HandleHealth ==
    Handled("health", 0, TRUE, health_check(embeddings_model))

HandleEmbed ==
    \E text \in 0..MaxTextLen, ok \in BOOLEAN :
        Handled("embed", text, ok, embed_text(embeddings_model, text, ok))

HandleEmbedBatch ==
    \E n \in 0..MaxTexts, ok \in BOOLEAN :
        Handled("embed_batch", n, ok, embed_batch(embeddings_model, n, ok))

HandleModelInfo ==
    \E ok \in BOOLEAN :
        Handled("model_info", 0, ok, model_info(embeddings_model, ok))

Requests == HandleHealth \/ HandleEmbed \/ HandleEmbedBatch \/ HandleModelInfo

(* The ASGI application object: its routes can be called whenever the      *)
(* startup block is not executing.  The block of lines 26-46 contains no   *)
(* await, so no handler of the same event loop runs inside it; a client    *)
(* that does not drive the lifespan protocol reaches the handlers before   *)
(* startup, after a failed startup and after shutdown, and may open a      *)
(* lifespan scope any number of times.                                     *)
Next == Lifespan \/ (lifespan_pc # "Loading" /\ Requests)

Spec == Init /\ [][Next]_vars

(* The application run by uvicorn.run (lines 149-157) with lifespan=lifespan *)
(* (lines 51-56): requests are dispatched only between the yield of line 46  *)
(* and the shutdown, and the lifespan is entered once per process.           *)
ServerNext ==
    \/ (lifespan_pc = "Uninitialized" /\ StartupConstruct)
    \/ StartupProbe
    \/ Shutdown
    \/ (lifespan_pc = "Ready" /\ Requests)

ServerSpec == Init /\ [][ServerNext]_vars

TypeOK ==
    /\ embeddings_model \in {None} \cup {HuggingFaceEmbeddings(d) : d \in 1..MaxDim}
    /\ lifespan_pc \in {"Uninitialized", "Loading", "Ready", "Failed", "Stopped"}
    /\ probe_result \in {"pending", "ok", "failed"}
    /\ reqs \in 0..MaxReqs
    /\ last.endpoint \in {"none", "health", "embed", "embed_batch", "model_info"}
    /\ last.out.status \in {0, 200, 400, 500, 503}

---------------------------------------------------------------------------
(* Properties *)

EmbedEndpoints == {"embed", "embed_batch", "model_info"}

NotLoadedDetail == "Embedding model not loaded"

TooLargeDetail == "Batch size too large (max 100)"

\* C1 (as stated): every /embed/batch request with more than 100 texts,
\* whether the handle is loaded or not, fails with 400 "Batch size too large
\* (max 100)", makes no backend call and leaves the handle unchanged.
C1_AnyStateBadRequest ==
    (last.endpoint = "embed_batch" /\ last.n > MaxBatch)
        => /\ last.out.status = 400
           /\ last.out.raised = "HTTPException"
           /\ last.out.detail = TooLargeDetail
           /\ last.out.calls = 0
           /\ last.out.model_after = last.model_before

\* C1 (amended): every /embed/batch request with more than 100 texts makes no
\* backend call and leaves the handle unchanged; it fails with 400 "Batch size
\* too large (max 100)" when the handle is loaded, and with 503 when it is not.
C1_OversizedBatchRejected ==
    (last.endpoint = "embed_batch" /\ last.n > MaxBatch)
        => /\ last.out.raised = "HTTPException"
           /\ last.out.calls = 0
           /\ last.out.model_after = last.model_before
           /\ is_not_None(last.model_before)
                => (last.out.status = 400 /\ last.out.detail = TooLargeDetail)
           /\ ~is_not_None(last.model_before)
                => (last.out.status = 503 /\ last.out.detail = NotLoadedDetail)

\* a batch of 101 texts was rejected with 400 on a loaded handle
C1_Witness ==
    /\ last.endpoint = "embed_batch"
    /\ last.n = MaxBatch + 1
    /\ is_not_None(last.model_before)
    /\ last.out.status = 400

\* C2: a request handled before initialize() has succeeded (Uninitialized,
\* Loading or Failed) fails with 503 without a backend call when it is for
\* /embed, /embed/batch or /models/info, and succeeds with
\* model_loaded = false when it is for /health.
C2_NotReadyBeforeInit ==
    (last.endpoint # "none"
       /\ last.pc_at \in {"Uninitialized", "Loading", "Failed"})
        => /\ last.endpoint \in EmbedEndpoints
                => (last.out.status = 503 /\ last.out.calls = 0)
           /\ last.endpoint = "health"
                => (last.out.status = 200 /\ ~last.out.body.model_loaded)

\* C3: on a Ready handle, a backend call that raises is caught inside the
\* handler and the request ends with an HTTPException of status 500.
C3_BackendFailureCaught ==
    (last.pc_at = "Ready" /\ last.out.calls >= 1 /\ ~last.backend_ok)
        => (last.out.raised = "HTTPException" /\ last.out.status = 500)

\* C4: in every handle state, GET /health returns normally with status 200
\* and makes no backend call.
C4_HealthNeverFails ==
    last.endpoint = "health"
        => /\ last.out.status = 200
           /\ last.out.raised = "none"
           /\ last.out.calls = 0
           /\ last.out.body.model_loaded = is_not_None(last.model_before)

\* /health answered while no model was loaded
C4_Witness ==
    /\ last.endpoint = "health"
    /\ ~is_not_None(last.model_before)
    /\ last.out.status = 200

\* C5: a /embed/batch request with at most 100 texts on a Ready handle whose
\* backend call succeeds is answered with count = length(texts) and every
\* embedding of length dimension; an empty batch gives embeddings = [],
\* dimension = 0, count = 0.
C5_BatchResponseShape ==
    /\ (last.endpoint = "embed_batch" /\ last.pc_at = "Ready"
          /\ last.n <= MaxBatch /\ last.backend_ok)
         => last.out.status = 200
    /\ (last.endpoint = "embed_batch" /\ last.out.status = 200)
         => /\ last.out.body.count = last.n
            /\ Len(last.out.body.embeddings) = last.n
            /\ \A i \in 1..Len(last.out.body.embeddings) :
                 Len(last.out.body.embeddings[i]) = last.out.body.dimension
            /\ last.n = 0
                 => /\ last.out.body.embeddings = <<>>
                    /\ last.out.body.dimension = 0
                    /\ last.out.body.count = 0

\* a full batch of 100 texts was embedded
C5_Witness ==
    /\ last.endpoint = "embed_batch"
    /\ last.n = MaxBatch
    /\ last.out.status = 200
    /\ last.out.body.dimension >= 2

\* C6: the handle is loaded only if the startup probe has succeeded.
C6_LoadedOnlyAfterProbe ==
    is_not_None(embeddings_model) => probe_result = "ok"

\* C7: after shutdown the handle is not loaded, and no /embed, /embed/batch
\* or /models/info request handled in Stopped reaches the backend or succeeds.
C7_StoppedReleasesBackend ==
    /\ lifespan_pc = "Stopped" => ~is_not_None(embeddings_model)
    /\ (last.pc_at = "Stopped" /\ last.endpoint \in EmbedEndpoints)
         => (last.out.calls = 0 /\ last.out.status # 200)

\* C8: a step that handles a request, whatever its outcome, leaves the handle
\* and the lifecycle unchanged; the handle changes only in a lifespan step.
C8_HandlersReadOnly ==
    [][/\ reqs' # reqs
            => /\ embeddings_model' = embeddings_model
               /\ lifespan_pc' = lifespan_pc
               /\ probe_result' = probe_result
               /\ last'.out.model_after = last'.model_before
       /\ embeddings_model' # embeddings_model
            => (lifespan_pc' # lifespan_pc /\ reqs' = reqs)]_vars

\* a request failed with 500 and the handle is still loaded and Ready
C8_Witness ==
    /\ last.out.status = 500
    /\ reqs >= 2
    /\ lifespan_pc = "Ready"
    /\ is_not_None(embeddings_model)

\* C9: under the server, a request is handled only after construction and
\* probe have both succeeded, and a failed probe puts the service in Failed
\* with no request ever handled.
C9_StartupSequential ==
    /\ reqs > 0 => (probe_result = "ok" /\ is_not_None(embeddings_model))
    /\ last.endpoint # "none" => last.pc_at = "Ready"
    /\ probe_result = "failed" => (lifespan_pc = "Failed" /\ reqs = 0)
    /\ lifespan_pc \in {"Ready", "Stopped"} => probe_result = "ok"

\* the server handled a request after a successful probe
C9_Witness ==
    /\ reqs > 0
    /\ probe_result = "ok"
    /\ last.pc_at = "Ready"

\* C10: a handled request makes at most one backend call: exactly one for
\* /embed, /models/info and /embed/batch with at most 100 texts on a Ready
\* handle, none for /health and for a request rejected with 503 or 400; a
\* failed backend call is not followed by another.
C10_NoRetry ==
    /\ last.out.calls <= 1
    /\ (last.pc_at = "Ready" /\ last.endpoint \in {"embed", "model_info"})
         => last.out.calls = 1
    /\ (last.pc_at = "Ready" /\ last.endpoint = "embed_batch"
          /\ last.n <= MaxBatch)
         => last.out.calls = 1
    /\ (last.endpoint = "health" \/ last.out.status \in {400, 503})
         => last.out.calls = 0
    /\ (last.endpoint \in EmbedEndpoints /\ last.out.status \in {0, 500})
         => (~last.backend_ok /\ last.out.calls = 1)

\* a backend call failed inside /embed and was not repeated
C10_Witness ==
    /\ last.endpoint = "embed"
    /\ ~last.backend_ok
    /\ last.out.status = 500
    /\ last.out.calls = 1

==========================================================================
